---- MODULE Spec2Model ----
(***************************************************************************)
(* ToniRincon/AIND-Recognizer: my_recognizer.recognize and the four model  *)
(* selectors of my_model_selectors (SelectorConstant, SelectorBIC,         *)
(* SelectorDIC, SelectorCV).                                               *)
(*                                                                         *)
(* hmmlearn's GaussianHMM and sklearn's KFold are libraries: a call of     *)
(* fit() or score() is an environment step that either raises or answers.  *)
(* A fitted model is identified by what determines it: the state count,    *)
(* the data it was fitted on and the random initialisation it drew.        *)
(* Python indices 0..K-1 are 1..K here.                                    *)
(*                                                                         *)
(* SpecRecognize: one call of recognize.  Spec: one select() call of       *)
(* SelectorConstant, SelectorBIC or SelectorDIC.  SpecCV: one select()     *)
(* call of SelectorCV.  SpecRepeat: select() called again on the same      *)
(* selector object, any of the four.                                        *)
(***************************************************************************)
EXTENDS Integers, Sequences, FiniteSets, TLC

\* ------------------------------------------------------------------ bounds
MaxWords == 2        \* vocabulary size M ranges over 1..MaxWords
MaxItems == 2        \* test_set.num_items ranges over 0..MaxItems
MaxN == 3            \* largest max_n_components explored
MaxSeq == 3          \* len(self.sequences) ranges over 1..MaxSeq
MaxLogL == 2         \* log-likelihoods are -LogLStep*k, k in 1..MaxLogL
NumRngStates == 2    \* states of numpy's global random generator
MaxCalls == 2        \* select() calls made on one selector object
LogLStep == 4        \* spacing of the modelled log-likelihood values
SeqFrames == 2       \* frames of every sequence of the modelled data
NumFeatures == 2     \* feature dimension d of the modelled data

\* ------------------------------------------------- constants of the program
DefaultMinN == 2     \* min_n_components=2
DefaultRandomState == 14
KFoldMax == 3        \* min(len(self.sequences),3)
KFoldMinSplits == 2  \* sklearn KFold raises ValueError when n_splits < 2

Words == 1..MaxWords
LogLs == {-(LogLStep * k) : k \in 1..MaxLogL}

\* The outcome of one model.score(X, lengths): a value, or an exception.
Ok(v) == [st |-> "ok", logL |-> v]
Raised == [st |-> "raised", logL |-> 0]
Outcomes == {Ok(v) : v \in LogLs} \cup {Raised}

\* ===================================================================
\* my_recognizer.recognize
\* ===================================================================
VARIABLES kind, pc,
          models, num_items, answers, probabilities, guesses, outcome,
          cfg, np_random, n_components, best_score, best_model, hist

vars == <<kind, pc, models, num_items, answers, probabilities, guesses, outcome,
          cfg, np_random, n_components, best_score, best_model, hist>>

recVars == <<models, num_items, answers, probabilities, guesses, outcome>>
selVars == <<cfg, np_random, n_components, best_score, best_model, hist>>

\* `models` is a dict: an ordered sequence of (word, model) entries with
\* distinct words; model is TRUE for a model object and FALSE for None.
RECURSIVE Perms(_)
Perms(S) ==
    IF S = {} THEN {<< >>}
    ELSE UNION {{<<x>> \o p : p \in Perms(S \ {x})} : x \in S}

ModelDicts ==
    UNION {{[j \in 1..Len(p) |-> [word |-> p[j], model |-> pres[j]]]
              : pres \in [1..Len(p) -> BOOLEAN]}
           : p \in UNION {Perms(S) : S \in SUBSET Words}}

\* What the environment answers to models[word].score(X, length) for one test
\* item, entry by entry of `models`.  None has no score attribute: the call
\* raises AttributeError whatever the item is.
ItemAnswers(ms) ==
    {a \in [1..Len(ms) -> Outcomes] :
        \A j \in 1..Len(ms) : ~ms[j].model => a[j] = Raised}

\* The loop as it would be with the except leaving it.
RECURSIVE ScoreWordsBreak(_, _, _)
ScoreWordsBreak(ms, a, j) ==
    IF j > Len(ms) THEN << >>
    ELSE IF a[j].st = "ok"
         THEN <<[word |-> ms[j].word, logL |-> a[j].logL]>> \o ScoreWordsBreak(ms, a, j + 1)
         ELSE << >>

\* Lines 26-33: the dict logLs of one test item, in insertion order.  A raising
\* score is swallowed by the bare except and the loop goes on to the next word.
RECURSIVE ScoreWords(_, _, _)
ScoreWords(ms, a, j) ==
    IF j > Len(ms) THEN << >>
    ELSE IF a[j].st = "ok"
         THEN <<[word |-> ms[j].word, logL |-> a[j].logL]>> \o ScoreWords(ms, a, j + 1)
         ELSE ScoreWords(ms, a, j + 1)

logLs(ms, a) == ScoreWords(ms, a, 1)

\* max as it would be if an equal key replaced the best.
RECURSIVE MaxFromLast(_, _, _)
MaxFromLast(p, best, j) ==
    IF j > Len(p) THEN best
    ELSE MaxFromLast(p, IF p[j].logL >= p[best].logL THEN j ELSE best, j + 1)

\* Python's max(iterable, key=...): the first element whose key is not
\* exceeded by a later one; only a strictly greater key replaces the best.
RECURSIVE MaxFrom(_, _, _)
MaxFrom(p, best, j) ==
    IF j > Len(p) THEN best
    ELSE MaxFrom(p, IF p[j].logL > p[best].logL THEN j ELSE best, j + 1)

\* Line 35, one element of the comprehension; p is not empty.
PyMaxKey(p) == p[MaxFrom(p, 1, 2)].word

\* Lines 25-34: one pass of the outer loop.
RecognizeItem ==
    /\ kind = "recognize" /\ pc = "loop"
    /\ Len(probabilities) < num_items
    /\ \E a \in ItemAnswers(models) :
          /\ answers' = Append(answers, a)
          /\ probabilities' = Append(probabilities, logLs(models, a))
    /\ UNCHANGED <<kind, pc, models, num_items, guesses, outcome>>
    /\ UNCHANGED selVars

\* Lines 35-36: the list comprehension and the return.  max() of an empty
\* sequence raises ValueError, which nothing catches: no list is returned.
RecognizeGuess ==
    /\ kind = "recognize" /\ pc = "loop"
    /\ Len(probabilities) = num_items
    /\ IF \E i \in 1..num_items : probabilities[i] = << >>
       THEN /\ outcome' = "ValueError"
            /\ guesses' = guesses
       ELSE /\ outcome' = "returned"
            /\ guesses' = [i \in 1..num_items |-> PyMaxKey(probabilities[i])]
    /\ pc' = "done"
    /\ UNCHANGED <<kind, models, num_items, answers, probabilities>>
    /\ UNCHANGED selVars

\* ===================================================================
\* my_model_selectors
\* ===================================================================
RngStates == 0..(NumRngStates - 1)

\* A set of sequences of one word, as combine_sequences / hwords give it:
\* the word and the indices of its sequences that are concatenated.
Data(w, idx) == [word |-> w, idx |-> idx]

\* Line 23: self.X, self.lengths = all_word_Xlengths[this_word], the
\* concatenation of all sequences of the word.  Every word of the modelled
\* vocabulary has cfg.nseq sequences.
hwords(w) == Data(w, 1..cfg.nseq)
X == hwords(cfg.this_word)

\* A fitted GaussianHMM: its state count, the data it was fitted on and the
\* random initialisation it started from (an explicit random_state, or the
\* state of numpy's global generator when random_state is left None).
Model(n, data, init) == [n |-> n, data |-> data, init |-> init]
None == Model(0, Data(0, {}), <<"none", 0>>)
Seeded(s) == <<"random_state", s>>
Global(s) == <<"global", s>>
Draw(k) == Global((np_random + k) % NumRngStates)

FitEvent(m, ok) == [n |-> m.n, data |-> m.data, init |-> m.init, ok |-> ok]
ScoreEvent(m, on, out) == [model |-> m, on |-> on, out |-> out]

\* Extended rationals num/den, den >= 0; den = 0 is float('inf') (num = 1) or
\* float('-inf') (num = -1).  Comparison is by cross-multiplication.
Rat(a, b) == [num |-> a, den |-> b]
PosInf == Rat(1, 0)
NegInf == Rat(-1, 0)
Lt(a, b) ==
    IF a.den = 0 /\ b.den = 0 THEN a.num < b.num
    ELSE a.num * b.den < b.num * a.den
Gt(a, b) == Lt(b, a)
NoScore == Rat(0, 0)

\* One pass of a selector's loop, as the call sequence it made and what came of
\* it: computed is FALSE when the pass left through the except clause.
Pass(n, fits, scores, computed, crit) ==
    [n |-> n, fits |-> fits, scores |-> scores, computed |-> computed, crit |-> crit]

Range(s) == {s[j] : j \in 1..Len(s)}

\* The fit() and score() calls of the select() calls that have returned.  (No
\* call is repeated within one select(): its passes differ in n, the folds of
\* a pass in their data.)
Returned == {c \in 1..Len(hist) : c < Len(hist) \/ pc \in {"idle", "done"}}
PastPasses == UNION {Range(hist[c].passes) : c \in Returned}
PastFits == UNION {Range(r.fits) : r \in PastPasses}
PastScores == UNION {Range(r.scores) : r \in PastPasses}

\* fit() and score() are functions of their arguments and of the random
\* initialisation: a call repeated with the same ones ends the same way.
Repeatable(r) ==
    \/ Returned = {}
    \/ /\ \A e \in Range(r.fits) : \A f \in PastFits :
             (f.n = e.n /\ f.data = e.data /\ f.init = e.init) => f.ok = e.ok
       /\ \A e \in Range(r.scores) : \A f \in PastScores :
             (f.model = e.model /\ f.on = e.on) => f.out = e.out

\* The answers the environment can give to a call: those of S when the call
\* is made, the placeholder alone when it is not.
Asked(made, S, placeholder) == IF made THEN S ELSE {placeholder}

\* Lines 34-47: base_model(num_states), a fit on self.X with
\* random_state=self.random_state; any exception of the fit gives None.
base_model_fit(num_states) == Model(num_states, X, Seeded(cfg.random_state))
base_model(num_states, ok) == IF ok THEN base_model_fit(num_states) ELSE None

\* ln(N) in thousandths, N = 1..16 (np.log, line 93).
LnTable == <<0, 693, 1099, 1386, 1609, 1792, 1946, 2079,
             2197, 2303, 2398, 2485, 2565, 2639, 2708, 2773>>

\* The criterion without the complexity penalty.
bicNoPenalty(logL, n) == Rat(-2 * logL * 1000, 1000)

\* Lines 90-93: n_features = len(self.X[0]), N = len(self.X),
\* p = n**2 + 2*n*n_features - 1, bic = -2*logL + p*np.log(N).
n_features == NumFeatures
N == cfg.nseq * SeqFrames
p(n) == n * n + 2 * n * n_features - 1
bic(logL, n) == Rat(-2 * logL * 1000 + p(n) * LnTable[N], 1000)

\* Lines 87-98: one pass of SelectorBIC's loop.  The model is fitted on self.X
\* with random_state left None, then scored on self.X.
BICPass(n, fitok, sc) ==
    LET m == Model(n, X, Draw(0))
        scored == fitok /\ sc.st = "ok"
    IN  Pass(n, <<FitEvent(m, fitok)>>,
             IF fitok THEN <<ScoreEvent(m, X, sc)>> ELSE << >>,
             scored,
             IF scored THEN bic(sc.logL, n) ELSE NoScore)

\* Line 94: if bic<best_bic.
BICBetter(r) == r.computed /\ Lt(r.crit, best_score)
\* The model a pass leaves in best_model: the one it fitted on self.X.
FullModel(r) ==
    LET ok == {j \in 1..Len(r.fits) : r.fits[j].data = X /\ r.fits[j].ok}
    IN  IF ok = {} THEN None
        ELSE LET e == r.fits[CHOOSE j \in ok : TRUE]
             IN  Model(e.n, e.data, e.init)

Record(r) == [hist EXCEPT ![Len(hist)].passes = Append(@, r)]
Advance(r) == (np_random + Len(r.fits)) % NumRngStates

\* Lines 83-84, 118-120, 162-163: select() is entered.
SelectEnter ==
    /\ kind \in {"BIC", "DIC", "CV"} /\ pc = "idle"
    /\ n_components' = cfg.min_n_components
    /\ best_score' = IF kind = "BIC" THEN PosInf ELSE NegInf
    /\ best_model' = None
    /\ hist' = Append(hist, [passes |-> << >>, result |-> None])
    /\ pc' = "loop"
    /\ UNCHANGED <<kind, cfg, np_random>>
    /\ UNCHANGED recVars

\* Lines 86-98.
BICStep ==
    /\ kind = "BIC" /\ pc = "loop"
    /\ n_components <= cfg.max_n_components
    /\ \E fitok \in BOOLEAN : \E sc \in Asked(fitok, Outcomes, Raised) :
          LET r == BICPass(n_components, fitok, sc) IN
          /\ Repeatable(r)
          /\ hist' = Record(r)
          /\ np_random' = Advance(r)
          /\ IF BICBetter(r)
             THEN best_score' = r.crit /\ best_model' = FullModel(r)
             ELSE UNCHANGED <<best_score, best_model>>
    /\ n_components' = n_components + 1
    /\ UNCHANGED <<kind, pc, cfg>>
    /\ UNCHANGED recVars

\* Lines 99, 148, 181: return best_model.
SelectReturn ==
    /\ kind \in {"BIC", "DIC", "CV"} /\ pc = "loop"
    /\ n_components > cfg.max_n_components
    /\ hist' = [hist EXCEPT ![Len(hist)].result = best_model]
    /\ pc' = "done"
    /\ UNCHANGED <<kind, cfg, np_random, n_components, best_score, best_model>>
    /\ UNCHANGED recVars

\* Line 60 with the sweep's lower end in place of n_constant.
best_num_components_min == cfg.min_n_components

\* Line 60: best_num_components = self.n_constant.
best_num_components == cfg.n_constant

\* Lines 55-61: SelectorConstant.select().
ConstantSelect ==
    /\ kind = "Constant" /\ pc = "idle"
    /\ \E fitok \in BOOLEAN :
          LET m == base_model(best_num_components, fitok)
              r == Pass(best_num_components,
                        <<FitEvent(base_model_fit(best_num_components), fitok)>>,
                        << >>, fitok, NoScore)
          IN  /\ Repeatable(r)
              /\ hist' = Append(hist, [passes |-> <<r>>, result |-> m])
    /\ pc' = "done"
    /\ UNCHANGED <<kind, cfg, np_random, n_components, best_score, best_model>>
    /\ UNCHANGED recVars

\* ------------------------------------------------------------ SelectorDIC
RECURSIVE SumLogL(_, _)
SumLogL(scores, j) ==
    IF j > Len(scores) THEN 0 ELSE scores[j].out.logL + SumLogL(scores, j + 1)

AllOk(scores) == \A j \in 1..Len(scores) : scores[j].out.st = "ok"

\* The loop without the `continue` for this_word.
RECURSIVE OtherScoresAll(_, _, _)
OtherScoresAll(m, oth, w) ==
    IF w > cfg.nwords THEN << >>
    ELSE <<ScoreEvent(m, hwords(w), oth[w])>>
         \o (IF oth[w].st = "ok" THEN OtherScoresAll(m, oth, w + 1) ELSE << >>)

\* Lines 130-137: the loop over self.words (the vocabulary 1..nwords in dict
\* order), skipping this_word; the first score that raises leaves the try.
RECURSIVE OtherScores(_, _, _)
OtherScores(m, oth, w) ==
    IF w > cfg.nwords THEN << >>
    ELSE IF w = cfg.this_word THEN OtherScores(m, oth, w + 1)
    ELSE <<ScoreEvent(m, hwords(w), oth[w])>>
         \o (IF oth[w].st = "ok" THEN OtherScores(m, oth, w + 1) ELSE << >>)

\* Line 118: M = len(self.hwords).
M == cfg.nwords

\* Line 138: dic = logL-other_logL_sum/(M-1), as the rational
\* ((M-1)*logL - other_logL_sum)/(M-1); M > 1.
dic(logL, other_logL_sum) == Rat((M - 1) * logL - other_logL_sum, M - 1)

\* The answers of the scores of lines 134-135: one per other word, none asked
\* after the first that raises.
OtherAnswers ==
    {oth \in [1..cfg.nwords -> Outcomes] :
        /\ oth[cfg.this_word] = Raised
        /\ \A v, w \in 1..cfg.nwords :
              (v < w /\ v # cfg.this_word /\ oth[v] = Raised) => oth[w] = Raised}

\* Lines 124-147: one pass of SelectorDIC's loop.  With M = 1 line 138 divides
\* the int 0 by the int 0: ZeroDivisionError, swallowed like every exception.
DICPass(n, fitok, sc, oth) ==
    LET m == Model(n, X, Draw(0))
        others == OtherScores(m, oth, 1)
        scores == IF ~fitok THEN << >>
                  ELSE IF sc.st # "ok" THEN <<ScoreEvent(m, X, sc)>>
                  ELSE <<ScoreEvent(m, X, sc)>> \o others
        scored == fitok /\ AllOk(scores) /\ Len(scores) = 1 + Len(others)
        computed == scored /\ M - 1 # 0
    IN  Pass(n, <<FitEvent(m, fitok)>>, scores, computed,
             IF computed THEN dic(sc.logL, SumLogL(others, 1)) ELSE NoScore)

\* Line 141: if dic>best_dic.
DICBetter(r) == r.computed /\ Gt(r.crit, best_score)

\* Lines 122-147.
DICStep ==
    /\ kind = "DIC" /\ pc = "loop"
    /\ n_components <= cfg.max_n_components
    /\ \E fitok \in BOOLEAN : \E sc \in Asked(fitok, Outcomes, Raised) :
       \E oth \in Asked(fitok /\ sc.st = "ok", OtherAnswers, [w \in 1..cfg.nwords |-> Raised]) :
          LET r == DICPass(n_components, fitok, sc, oth) IN
          /\ Repeatable(r)
          /\ hist' = Record(r)
          /\ np_random' = Advance(r)
          /\ IF DICBetter(r)
             THEN best_score' = r.crit /\ best_model' = FullModel(r)
             ELSE UNCHANGED <<best_score, best_model>>
    /\ n_components' = n_components + 1
    /\ UNCHANGED <<kind, pc, cfg>>
    /\ UNCHANGED recVars

\* ------------------------------------------------------------- SelectorCV
Min(a, b) == IF a < b THEN a ELSE b

\* Line 166: split_n = min(len(self.sequences),3).
split_n == Min(cfg.nseq, KFoldMax)

\* Lines 167-171: KFold(split_n).split(self.sequences) without shuffling: the
\* j-th test fold is a contiguous block, the first nseq % split_n blocks one
\* longer; the training indices are the rest.
test_index(j) ==
    LET base == cfg.nseq \div split_n
        rem == cfg.nseq % split_n
        start == (j - 1) * base + Min(j - 1, rem) + 1
        size == base + (IF j <= rem THEN 1 ELSE 0)
    IN  start..(start + size - 1)
train_index(j) == (1..cfg.nseq) \ test_index(j)

NoFit == [st |-> "nofit", logL |-> 0]
FoldOutcomes == Outcomes \cup {NoFit}

\* The answers of the folds' fits and scores, none asked after the first that
\* raises.
FoldAnswers ==
    {fo \in [1..split_n -> FoldOutcomes] :
        \A j, k \in 1..split_n : (j < k /\ fo[j].st # "ok") => fo[k] = NoFit}

\* Lines 169-174: the folds that are run; the first fit or score that raises
\* leaves the try.
RECURSIVE FoldRuns(_, _, _)
FoldRuns(n, fo, j) ==
    IF j > split_n THEN << >>
    ELSE <<[m |-> Model(n, Data(cfg.this_word, train_index(j)), Draw(j - 1)),
            on |-> Data(cfg.this_word, test_index(j)),
            out |-> fo[j]]>>
         \o (IF fo[j].st = "ok" THEN FoldRuns(n, fo, j + 1) ELSE << >>)

\* Lines 165-180: one pass of SelectorCV's loop.  KFold(split_n) raises when
\* split_n < 2.  When the average beats best_cv, best_cv is assigned and then
\* a model is fitted on self.X.
CVPass(n, fo, fullok) ==
    IF split_n < KFoldMinSplits THEN Pass(n, << >>, << >>, FALSE, NoScore)
    ELSE
    LET runs == FoldRuns(n, fo, 1)
        foldfits == [j \in 1..Len(runs) |-> FitEvent(runs[j].m, runs[j].out # NoFit)]
        scores == [j \in 1..Len(SelectSeq(runs, LAMBDA x : x.out # NoFit))
                     |-> LET x == SelectSeq(runs, LAMBDA y : y.out # NoFit)[j]
                         IN  ScoreEvent(x.m, x.on, x.out)]
        computed == Len(runs) = split_n /\ AllOk(runs)
        logL_sum == SumLogL(runs, 1)
        logL_avg == Rat(logL_sum, split_n)
        full == FitEvent(Model(n, X, Draw(split_n)), fullok)
    IN  IF computed /\ Gt(logL_avg, best_score)
        THEN Pass(n, Append(foldfits, full), scores, TRUE, logL_avg)
        ELSE Pass(n, foldfits, scores, computed, IF computed THEN logL_avg ELSE NoScore)

\* Line 176: if logL_avg>best_cv.
CVBetter(r) == r.computed /\ Gt(r.crit, best_score)

\* Lines 177-178: best_cv = logL_avg, then best_model = GaussianHMM(...).fit(
\* self.X, self.lengths); a fit that raises leaves best_model as it was.
CVBestModel(r) == IF FullModel(r) # None THEN FullModel(r) ELSE best_model

\* Lines 164-180.
CVStep ==
    /\ kind = "CV" /\ pc = "loop"
    /\ n_components <= cfg.max_n_components
    /\ \E fo \in FoldAnswers :
       \E fullok \in Asked(CVBetter(CVPass(n_components, fo, FALSE)), BOOLEAN, FALSE) :
          LET r == CVPass(n_components, fo, fullok) IN
          /\ Repeatable(r)
          /\ hist' = Record(r)
          /\ np_random' = Advance(r)
          /\ IF CVBetter(r)
             THEN best_score' = r.crit /\ best_model' = CVBestModel(r)
             ELSE UNCHANGED <<best_score, best_model>>
    /\ n_components' = n_components + 1
    /\ UNCHANGED <<kind, pc, cfg>>
    /\ UNCHANGED recVars

\* The caller calls select() once more on the same selector object.
SelectAgain ==
    /\ kind \in {"Constant", "BIC", "DIC", "CV"} /\ pc = "done"
    /\ Len(hist) < MaxCalls
    /\ pc' = "idle"
    /\ UNCHANGED <<kind, cfg, np_random, n_components, best_score, best_model, hist>>
    /\ UNCHANGED recVars

\* ===================================================================
\* Initial states and specifications
\* ===================================================================
\* Lines 16-29: the arguments of the constructor.  random_state is left at
\* its default; every selector is explored over the arguments it reads, the
\* others are left at one value.
Config(lo, hi, nc, nw, tw, ns) ==
    [min_n_components |-> lo, max_n_components |-> hi, n_constant |-> nc,
     random_state |-> DefaultRandomState, nwords |-> nw, this_word |-> tw, nseq |-> ns]

Ranges == {lh \in (DefaultMinN..MaxN) \X (DefaultMinN..MaxN) : lh[1] <= lh[2]}

Configs(k) ==
    CASE k = "Constant" ->
           {Config(lh[1], lh[2], nc, 1, 1, ns) : lh \in Ranges, nc \in 1..MaxN, ns \in 1..MaxSeq}
      [] k = "BIC" ->
           {Config(lh[1], lh[2], DefaultMinN, 1, 1, ns) : lh \in Ranges, ns \in 1..MaxSeq}
      [] k = "DIC" ->
           {Config(lh[1], lh[2], DefaultMinN, wt[1], wt[2], 1) :
               lh \in Ranges, wt \in {x \in Words \X Words : x[2] <= x[1]}}
      [] k = "CV" ->
           {Config(lh[1], lh[2], DefaultMinN, 1, 1, ns) : lh \in Ranges, ns \in 1..MaxSeq}

\* The state after the constructor, before select() is called.  The global
\* generator's state is called 0: the states that follow are counted from it.
InitOf(kinds) ==
    /\ kind \in kinds /\ pc = "idle"
    /\ cfg \in Configs(kind)
    /\ np_random = 0
    /\ n_components = 0 /\ best_score = NoScore /\ best_model = None /\ hist = << >>
    /\ models = << >> /\ num_items = 0
    /\ answers = << >> /\ probabilities = << >> /\ guesses = << >>
    /\ outcome = "running"

\* SelectorConstant, SelectorBIC and SelectorDIC, one select() call.
Init == InitOf({"Constant", "BIC", "DIC"})

Next ==
    \/ ConstantSelect
    \/ SelectEnter
    \/ BICStep
    \/ DICStep
    \/ SelectReturn

Spec == Init /\ [][Next]_vars

\* SelectorCV, one select() call.
InitCV == InitOf({"CV"})

NextCV ==
    \/ SelectEnter
    \/ CVStep
    \/ SelectReturn

SpecCV == InitCV /\ [][NextCV]_vars

\* Every selector, select() called up to MaxCalls times on the same object.
InitRepeat == InitOf({"Constant", "BIC", "DIC", "CV"})

NextRepeat ==
    \/ ConstantSelect
    \/ SelectEnter
    \/ BICStep
    \/ DICStep
    \/ CVStep
    \/ SelectReturn
    \/ SelectAgain

SpecRepeat == InitRepeat /\ [][NextRepeat]_vars

\* The state at line 25 of recognize(models, test_set), lines 21-22 done.
InitRecognize ==
    /\ kind = "recognize" /\ pc = "loop"
    /\ models \in ModelDicts
    /\ num_items \in 0..MaxItems
    /\ answers = << >> /\ probabilities = << >> /\ guesses = << >>
    /\ outcome = "running"
    /\ cfg = Config(DefaultMinN, DefaultMinN, DefaultMinN, 1, 1, 1)
    /\ np_random = 0 /\ n_components = 0
    /\ best_score = NoScore /\ best_model = None /\ hist = << >>

NextRecognize == RecognizeItem \/ RecognizeGuess

SpecRecognize == InitRecognize /\ [][NextRecognize]_vars

\* ===================================================================
\* Properties of recognize (SpecRecognize)
\* ===================================================================
\* The positions of `models` whose score on test item i succeeded.
Scored(i) == {j \in 1..Len(models) : answers[i][j].st = "ok"}
Keys(d) == {d[k].word : k \in 1..Len(d)}

\* C1: when recognize has ended and every score attempt failed for some test
\* item (or models is empty), it has returned normally, that item's table is
\* empty and its guess is a sentinel, not a word of the vocabulary.
C1_NoGuessSentinel ==
    (kind = "recognize" /\ pc = "done") =>
        /\ outcome = "returned"
        /\ Len(guesses) = num_items
        /\ \A i \in 1..num_items :
              Scored(i) = {} => (probabilities[i] = << >> /\ guesses[i] \notin Words)

\* C2: when every test item is scored by at least one model, recognize returns
\* two lists of length num_items, and the i-th guess is a word whose score on
\* item i is the greatest of item i's scores and, among the words with that
\* score, the first in the iteration order of models.
C2_GuessIsFirstArgMax ==
    (kind = "recognize" /\ pc = "done" /\ \A i \in 1..num_items : Scored(i) # {}) =>
        /\ outcome = "returned"
        /\ Len(probabilities) = num_items
        /\ Len(guesses) = num_items
        /\ \A i \in 1..num_items :
              /\ guesses[i] \in Keys(probabilities[i])
              /\ \E k \in Scored(i) :
                    /\ models[k].word = guesses[i]
                    /\ \A j \in Scored(i) :
                          /\ answers[i][j].logL <= answers[i][k].logL
                          /\ answers[i][j].logL = answers[i][k].logL => k <= j

\* C2 happens: a returned call on two items whose models are not in word
\* order, with an item on which two words tie for the greatest score.
C2_Witness ==
    /\ kind = "recognize" /\ pc = "done" /\ outcome = "returned"
    /\ num_items = MaxItems
    /\ Len(models) >= 2 /\ models[1].word > models[2].word
    /\ \E i \in 1..num_items :
          /\ Scored(i) = {1, 2}
          /\ answers[i][1].logL = answers[i][2].logL
          /\ guesses[i] = models[1].word
    /\ \E i \in 1..num_items : guesses[i] = models[2].word

\* C3: for every test item the loop has passed and every entry of models, the
\* word is a key of the item's table exactly when its model is present and its
\* score on the item succeeded, the value is that score, and once the loop has
\* ended every test item has its table.
C3_TableHoldsTheScoresThatSucceeded ==
    kind = "recognize" =>
        /\ Len(probabilities) <= num_items
        /\ pc = "done" => Len(probabilities) = num_items
        /\ \A i \in 1..Len(probabilities) :
              /\ \A j \in 1..Len(models) :
                    /\ (models[j].word \in Keys(probabilities[i]))
                          <=> (models[j].model /\ answers[i][j].st = "ok")
                    /\ \A k \in 1..Len(probabilities[i]) :
                          probabilities[i][k].word = models[j].word
                              => probabilities[i][k].logL = answers[i][j].logL
              /\ Keys(probabilities[i]) \subseteq {models[j].word : j \in 1..Len(models)}
              /\ Len(probabilities[i]) = Cardinality(Keys(probabilities[i]))

\* C3 happens: a returned call on two items; on the first item the score of
\* the first entry of models raises and the second entry is scored all the
\* same, and the second item has the first entry's score in its table.
C3_Witness ==
    /\ kind = "recognize" /\ pc = "done" /\ outcome = "returned"
    /\ num_items = MaxItems
    /\ Len(models) >= 2 /\ models[1].model /\ models[2].model
    /\ answers[1][1].st = "raised" /\ answers[1][2].st = "ok"
    /\ Keys(probabilities[1]) = {models[2].word}
    /\ answers[2][1].st = "ok" /\ models[1].word \in Keys(probabilities[2])

\* ===================================================================
\* Properties of the selectors (Spec, SpecCV, SpecRepeat)
\* ===================================================================
passes == hist[1].passes
result == hist[1].result
ModelOf(e) == Model(e.n, e.data, e.init)

\* The sweep made one pass for every n of min_n_components..max_n_components,
\* in order.
Swept ==
    /\ Len(passes) = cfg.max_n_components - cfg.min_n_components + 1
    /\ \A j \in 1..Len(passes) : passes[j].n = cfg.min_n_components + j - 1

\* Every pass fitted one model, with the n of the pass, on the word's own data.
TrainedOnceOnOwnData ==
    \A j \in 1..Len(passes) :
        /\ Len(passes[j].fits) = 1
        /\ passes[j].fits[1].n = passes[j].n
        /\ passes[j].fits[1].data = Data(cfg.this_word, 1..cfg.nseq)

\* BIC: the passes whose model was fitted and scored, and their BIC in
\* thousandths, -2*logL + (n^2 + 2*n*d - 1)*ln(N).
BICScored == {j \in 1..Len(passes) :
                 /\ passes[j].fits[1].ok
                 /\ Len(passes[j].scores) = 1
                 /\ passes[j].scores[1].out.st = "ok"}
BICOf(j) ==
    LET n == passes[j].n IN
    -2 * passes[j].scores[1].out.logL * 1000
        + (n * n + 2 * n * NumFeatures - 1) * LnTable[cfg.nseq * SeqFrames]

\* C4: when SelectorBIC.select() has returned, the sweep has tried every n of
\* the range, each fitted on the word's own data and scored on it; the result
\* is None when no candidate was fitted and scored, and otherwise the model of
\* a fitted and scored candidate whose BIC no other such candidate's is below.
C4_BICMinimal ==
    (kind = "BIC" /\ pc = "done") =>
        /\ Swept
        /\ TrainedOnceOnOwnData
        /\ \A j \in 1..Len(passes) : \A k \in 1..Len(passes[j].scores) :
              passes[j].scores[k].on = Data(cfg.this_word, 1..cfg.nseq)
        /\ BICScored = {} => result = None
        /\ BICScored # {} =>
              \E k \in BICScored :
                  /\ result = ModelOf(passes[k].fits[1])
                  /\ \A j \in BICScored : BICOf(k) <= BICOf(j)

\* C4 happens: two candidates are fitted and scored, the later one has the
\* greater log-likelihood and the earlier one, whose BIC is lower, is returned.
C4_Witness ==
    /\ kind = "BIC" /\ pc = "done"
    /\ Len(passes) = 2
    /\ BICScored = {1, 2}
    /\ passes[2].scores[1].out.logL > passes[1].scores[1].out.logL
    /\ BICOf(1) < BICOf(2)
    /\ result.n = passes[1].n

\* DIC: the passes for which the criterion was computed: the model was fitted,
\* scored on its own word and on every other word, and M > 1; and the
\* criterion times M-1, (M-1)*logL_self - sum of logL_other.
DICComputed == {j \in 1..Len(passes) :
                   /\ passes[j].fits[1].ok
                   /\ Len(passes[j].scores) = cfg.nwords
                   /\ AllOk(passes[j].scores)
                   /\ cfg.nwords > 1}
DICOf(j) ==
    (cfg.nwords - 1) * passes[j].scores[1].out.logL
        - SumLogL(SubSeq(passes[j].scores, 2, Len(passes[j].scores)), 1)

\* C5: when SelectorDIC.select() has returned, every candidate was fitted once
\* on the target word's own data; a candidate whose DIC was computed was
\* scored on its own word and then once on each of the M-1 other words of the
\* vocabulary and on nothing else; and the result is the model of a candidate
\* whose DIC no other computed DIC exceeds (None when no DIC was computed).
C5_DICMaximal ==
    (kind = "DIC" /\ pc = "done") =>
        /\ Swept
        /\ TrainedOnceOnOwnData
        /\ \A j \in DICComputed :
              /\ passes[j].scores[1].on = Data(cfg.this_word, 1..cfg.nseq)
              /\ {passes[j].scores[k].on.word : k \in 2..Len(passes[j].scores)}
                    = (1..cfg.nwords) \ {cfg.this_word}
        /\ \A j \in 1..Len(passes) : Len(passes[j].scores) <= cfg.nwords
        /\ DICComputed = {} => result = None
        /\ DICComputed # {} =>
              \E k \in DICComputed :
                  /\ result = ModelOf(passes[k].fits[1])
                  /\ \A j \in DICComputed : DICOf(k) >= DICOf(j)

\* C5 happens: in a vocabulary of MaxWords words two candidates have their DIC
\* computed, the later one's is greater although its own log-likelihood is
\* not, and the later one is returned.
C5_Witness ==
    /\ kind = "DIC" /\ pc = "done"
    /\ cfg.nwords = MaxWords
    /\ DICComputed = {1, 2}
    /\ DICOf(2) > DICOf(1)
    /\ passes[2].scores[1].out.logL <= passes[1].scores[1].out.logL
    /\ result.n = passes[2].n

\* C9: when SelectorConstant.select() has returned, it made one training
\* attempt, at n_constant states on the word's full data, and no other call;
\* the result is that model when the training succeeded and None exactly when
\* it raised.
C9_ConstantTrainsOnceAtNConstant ==
    (kind = "Constant" /\ pc = "done") =>
        /\ Len(passes) = 1
        /\ Len(passes[1].fits) = 1
        /\ Len(passes[1].scores) = 0
        /\ LET e == passes[1].fits[1] IN
              /\ e.n = cfg.n_constant
              /\ e.data = Data(cfg.this_word, 1..cfg.nseq)
              /\ e.init = Seeded(cfg.random_state)
              /\ e.ok => (result = ModelOf(e) /\ result.n = cfg.n_constant)
              /\ (result = None) <=> ~e.ok

\* C9 happens: n_constant lies below min_n_components, the training succeeds
\* and the model of n_constant states is returned.
C9_Witness ==
    /\ kind = "Constant" /\ pc = "done"
    /\ cfg.n_constant < cfg.min_n_components
    /\ passes[1].fits[1].ok
    /\ result.n = cfg.n_constant

\* CV: the candidates whose folds were all fitted and scored, and the sum of a
\* candidate's held-out log-likelihoods (its average times split_n).
CVEvaluated == {j \in 1..Len(passes) :
                   /\ split_n >= KFoldMinSplits
                   /\ Len(passes[j].scores) = split_n
                   /\ AllOk(passes[j].scores)}
CVSumOf(j) == SumLogL(passes[j].scores, 1)
CVWinners == {j \in CVEvaluated : \A i \in CVEvaluated : CVSumOf(i) <= CVSumOf(j)}
\* The fits on the word's full data, as (pass, position in the pass).
CVFullFits == {jk \in (1..Len(passes)) \X (1..(KFoldMax + 1)) :
                  /\ jk[2] <= Len(passes[jk[1]].fits)
                  /\ passes[jk[1]].fits[jk[2]].data = Data(cfg.this_word, 1..cfg.nseq)}

\* C6: when SelectorCV.select() returns a model, the model was fitted on the
\* word's full data and its state count is that of a candidate with the
\* highest average held-out log-likelihood among the candidates whose folds
\* were all fitted and scored.
C6_CVReturnsWinnerOnFullData ==
    (kind = "CV" /\ pc = "done" /\ result # None) =>
        /\ result.data = Data(cfg.this_word, 1..cfg.nseq)
        /\ \E j \in CVWinners : result.n = passes[j].n

\* C10: when SelectorCV.select() has returned and some candidate's folds were
\* all fitted and scored, there was exactly one fit on the full data, made
\* after the folds of every n of the range, and the result is no fold's model.
C10_CVOneFullFitAfterSweep ==
    (kind = "CV" /\ pc = "done" /\ CVEvaluated # {}) =>
        /\ Cardinality(CVFullFits) = 1
        /\ \A jk \in CVFullFits : jk[1] = Len(passes)
        /\ result # None => result.data = Data(cfg.this_word, 1..cfg.nseq)

\* A candidate that was trained and scored: its fit and every score the
\* selector asked of it succeeded (for SelectorCV, on every fold).
TrainedAndScored(j) ==
    CASE kind = "BIC" -> j \in BICScored
      [] kind = "DIC" -> /\ passes[j].fits[1].ok
                         /\ Len(passes[j].scores) = cfg.nwords
                         /\ AllOk(passes[j].scores)
      [] kind = "CV" -> j \in CVEvaluated

\* C7: when select() of SelectorBIC, SelectorDIC or SelectorCV has returned,
\* the result is None exactly when no candidate of the range was trained and
\* scored.
C7_NoneIffEveryCandidateFailed ==
    (kind \in {"BIC", "DIC", "CV"} /\ pc = "done") =>
        ((result = None) <=> (\A j \in 1..Len(passes) : ~TrainedAndScored(j)))

\* C8: the select() calls that have returned on one selector object, whose
\* word data, configuration and random_state never change, all returned the
\* same result.
C8_RepeatedSelectSameResult ==
    \A c, d \in Returned : hist[c].result = hist[d].result

====
